---------------------------- MODULE Spec2Model ----------------------------
(***************************************************************************)
(* A model of app.py, the Illinois income-tax LGDF modeling dashboard.     *)
(*                                                                         *)
(* The dashboard is a Streamlit script: every user interaction re-runs the *)
(* whole script with the widgets' current values.  The state is the CSV    *)
(* file, the st.cache_data memo of load_data, the widgets, and the frames  *)
(* and metrics the last run of the script produced.  One action is one     *)
(* user interaction followed by the complete re-run it triggers.           *)
(*                                                                         *)
(* Representation                                                          *)
(*  - a Python str is a sequence of one-character strings;                 *)
(*  - a rate (percent) is an integer number of hundredths: 5.45 is 545;    *)
(*  - a float64 amount of money is an integer number of 1/FloatDen         *)
(*    dollars, FloatDen being ten times the least common multiple of the   *)
(*    rates of the fiscal years the model's data uses, so that every       *)
(*    fy_total with one decimal and every fy_total * (modeled / actual)    *)
(*    is represented exactly; float64 rounding is not modelled;            *)
(*  - the float NaN is the value NaN.                                      *)
(***************************************************************************)
EXTENDS Integers, Sequences, FiniteSets, TLC

(***************************************************************************)
(* Bounds of the model.                                                    *)
(***************************************************************************)
\* the largest fy_total of a generated data set, in tenths of a dollar
MaxTotal == 20
\* the largest number of rows of a generated CSV file
MaxRows == 2

(***************************************************************************)
(* Generic helpers.                                                        *)
(***************************************************************************)
Range(s) == {s[i] : i \in DOMAIN s}

Min(a, b) == IF a <= b THEN a ELSE b

Max(a, b) == IF a >= b THEN a ELSE b

SetMin(S) == CHOOSE x \in S : \A y \in S : x <= y

SetMax(S) == CHOOSE x \in S : \A y \in S : x >= y

RECURSIVE GCD(_, _)
GCD(a, b) == IF b = 0 THEN a ELSE GCD(b, a % b)

LCM(a, b) == (a \div GCD(a, b)) * b

RECURSIVE SetLCM(_)
SetLCM(S) ==
    IF S = {} THEN 1
    ELSE LET x == CHOOSE y \in S : TRUE IN LCM(x, SetLCM(S \ {x}))

(***************************************************************************)
(* Python str: characters in code-point order, strip, upper, lower, and    *)
(* the comparison sort_values uses on an object column.                    *)
(***************************************************************************)
Digits == <<"0", "1", "2", "3", "4", "5", "6", "7", "8", "9">>

Uppers == <<"A", "B", "C", "D", "E", "F", "G", "H", "I", "J", "K", "L", "M",
            "N", "O", "P", "Q", "R", "S", "T", "U", "V", "W", "X", "Y", "Z">>

Lowers == <<"a", "b", "c", "d", "e", "f", "g", "h", "i", "j", "k", "l", "m",
            "n", "o", "p", "q", "r", "s", "t", "u", "v", "w", "x", "y", "z">>

\* the characters of the model in increasing code point
CodePoints == <<" ", "-", ".", "/">> \o Digits \o Uppers \o <<"_">> \o Lowers

OrdOf == [c \in Range(CodePoints) |-> CHOOSE i \in DOMAIN CodePoints : CodePoints[i] = c]

Ord(c) == OrdOf[c]

IndexIn(c, alphabet) ==
    IF c \in Range(alphabet)
    THEN CHOOSE i \in DOMAIN alphabet : alphabet[i] = c
    ELSE 0

upper(s) ==
    [i \in DOMAIN s |->
        IF IndexIn(s[i], Lowers) > 0 THEN Uppers[IndexIn(s[i], Lowers)] ELSE s[i]]

lower(s) ==
    [i \in DOMAIN s |->
        IF IndexIn(s[i], Uppers) > 0 THEN Lowers[IndexIn(s[i], Uppers)] ELSE s[i]]

IsSpace(c) == c = " "

strip(s) ==
    LET keep == {i \in DOMAIN s : ~IsSpace(s[i])}
    IN  IF keep = {} THEN <<>>
        ELSE SubSeq(s, SetMin(keep), SetMax(keep))

\* s < t for two Python strs
RECURSIVE StrLess(_, _)
StrLess(s, t) ==
    IF t = <<>> THEN FALSE
    ELSE IF s = <<>> THEN TRUE
    ELSE IF s[1] # t[1] THEN Ord(s[1]) < Ord(t[1])
    ELSE StrLess(Tail(s), Tail(t))

(***************************************************************************)
(* float64.                                                                *)
(***************************************************************************)
NaN == -999999999

IsNaN(x) == x = NaN

\* the digits of s as a natural number
RECURSIVE DigitsValue(_)
DigitsValue(s) ==
    IF s = <<>> THEN 0
    ELSE DigitsValue(SubSeq(s, 1, Len(s) - 1)) * 10 + (IndexIn(s[Len(s)], Digits) - 1)

AllDigits(s) == \A i \in DOMAIN s : IndexIn(s[i], Digits) > 0

(***************************************************************************)
(* What read_csv followed by pd.to_numeric(errors="coerce") makes of a     *)
(* cell, in tenths: an optionally signed decimal numeral with at most one  *)
(* fractional digit is its value, the empty cell and every other text of   *)
(* the model's cells is NaN.                                               *)
(***************************************************************************)
ParseTenths(cell) ==
    LET neg  == cell # <<>> /\ cell[1] = "-"
        body == IF neg THEN Tail(cell) ELSE cell
        dots == {i \in DOMAIN body : body[i] = "."}
        ip   == IF dots = {} THEN body ELSE SubSeq(body, 1, SetMin(dots) - 1)
        fp   == IF dots = {} THEN <<>> ELSE SubSeq(body, SetMin(dots) + 1, Len(body))
        ok   == /\ Cardinality(dots) <= 1
                /\ AllDigits(ip) /\ AllDigits(fp)
                /\ Len(ip) + Len(fp) > 0
                /\ Len(fp) <= 1
        mag  == DigitsValue(ip) * 10 + DigitsValue(fp)
    IN  IF ~ok THEN NaN ELSE IF neg THEN -mag ELSE mag

\* a conversion that rounds to the nearest integer
AsTypeIntRounding(tenths) == (tenths + 5) \div 10

\* Series.astype(int) on a float column: truncation toward zero
AsTypeInt(tenths) ==
    IF tenths >= 0 THEN tenths \div 10 ELSE -((-tenths) \div 10)


(***************************************************************************)
(* The rate table, in hundredths of a percent.                             *)
(***************************************************************************)
ACTUAL_EFFECTIVE_RATES ==
    (2012 :> 600) @@ (2013 :> 600) @@ (2014 :> 600) @@ (2015 :> 600) @@
    (2016 :> 800) @@ (2017 :> 800) @@ (2018 :> 545) @@ (2019 :> 575) @@
    (2020 :> 575) @@ (2021 :> 606) @@ (2022 :> 606) @@ (2023 :> 616) @@
    (2024 :> 647) @@ (2025 :> 647)

\* Series.map(dict): the entry, NaN for a key the dict does not have
MapRate(fy) ==
    IF fy \in DOMAIN ACTUAL_EFFECTIVE_RATES THEN ACTUAL_EFFECTIVE_RATES[fy] ELSE NaN

\* the fiscal years of the rate table that the model's data sets use
DataYears == 2012 .. 2018

\* one dollar, in the unit amounts of money are counted in
FloatDen == 10 * SetLCM({ACTUAL_EFFECTIVE_RATES[y] : y \in DataYears})

\* a number of tenths as a float64 amount
Float(tenths) == IF IsNaN(tenths) THEN NaN ELSE tenths * (FloatDen \div 10)

(***************************************************************************)
(* The modeled-rate slider: min_value, max_value, value and step.          *)
(***************************************************************************)
SliderMin == 100

SliderMax == 1500

SliderDefault == 1000

SliderStep == 25

SliderValues == {SliderMin + k * SliderStep : k \in 0 .. ((SliderMax - SliderMin) \div SliderStep)}

(***************************************************************************)
(* load_data.  A CSV file is [columns |-> the header cells, rows |-> the   *)
(* rows, each a sequence of cells].                                        *)
(***************************************************************************)
fy_name == <<"f", "y">>

fy_total_name == <<"f", "y", "_", "t", "o", "t", "a", "l">>

local_government_name ==
    <<"l", "o", "c", "a", "l", "_", "g", "o", "v", "e", "r", "n", "m", "e", "n", "t">>

tax_name == <<"t", "a", "x">>

INC == <<"I", "N", "C">>

\* df.columns = [c.strip().lower() for c in df.columns]
NormalizeColumns(columns) == [j \in DOMAIN columns |-> lower(strip(columns[j]))]

ColumnIndex(columns, name) == CHOOSE j \in DOMAIN columns : columns[j] = name

\* Series.astype(str): read_csv reads an empty cell as NaN, whose str is "nan"
AsTypeStr(cell) == IF cell = <<>> THEN <<"n", "a", "n">> ELSE cell

\* lines 45-48: the four columns of one row, converted
ConvertRow(columns, row) ==
    [local_government |-> strip(AsTypeStr(row[ColumnIndex(columns, local_government_name)])),
     fy               |-> ParseTenths(row[ColumnIndex(columns, fy_name)]),
     fy_total         |-> Float(ParseTenths(row[ColumnIndex(columns, fy_total_name)])),
     tax              |-> upper(strip(AsTypeStr(row[ColumnIndex(columns, tax_name)])))]

\* df.dropna(subset=["fy", "fy_total"])
DropNa(rows) == SelectSeq(rows, LAMBDA r : ~IsNaN(r.fy) /\ ~IsNaN(r.fy_total))

\* df["fy"] = df["fy"].astype(int)
FyAsInt(rows) == [i \in DOMAIN rows |-> [rows[i] EXCEPT !.fy = AsTypeInt(@)]]

\* df[df["tax"] == "INC"]
KeepInc(rows) == SelectSeq(rows, LAMBDA r : r.tax = INC)

\* the order of sort_values(["local_government", "fy"])
MuniFyLess(a, b) ==
    \/ StrLess(a.local_government, b.local_government)
    \/ a.local_government = b.local_government /\ a.fy < b.fy

\* x put into the sorted sequence s behind every row that is not greater
InsertByMuniFy(x, s) ==
    LET after == {i \in DOMAIN s : ~MuniFyLess(x, s[i])}
        k     == IF after = {} THEN 0 ELSE SetMax(after)
    IN  SubSeq(s, 1, k) \o <<x>> \o SubSeq(s, k + 1, Len(s))

\* sort_values on several columns is a stable sort
RECURSIVE SortByMuniFy(_)
SortByMuniFy(rows) ==
    IF rows = <<>> THEN <<>>
    ELSE InsertByMuniFy(rows[Len(rows)], SortByMuniFy(SubSeq(rows, 1, Len(rows) - 1)))

load_data(csv) ==
    LET columns == NormalizeColumns(csv.columns)
        typed   == [i \in DOMAIN csv.rows |-> ConvertRow(columns, csv.rows[i])]
    IN  SortByMuniFy(KeepInc(FyAsInt(DropNa(typed))))

(***************************************************************************)
(* float64 arithmetic on columns: NaN propagates through the arithmetic,   *)
(* and is skipped by the reductions (sum, max), as pandas does.            *)
(***************************************************************************)
\* x * (num / den), exact because every amount of the model is a multiple of den
FScale(x, num, den) ==
    IF IsNaN(x) \/ IsNaN(num) \/ IsNaN(den) THEN NaN ELSE (x \div den) * num

FSub(x, y) == IF IsNaN(x) \/ IsNaN(y) THEN NaN ELSE x - y

\* no clip at all
NoClip(x) == x

\* the magnitude instead of the clip
AbsoluteValue(x) == IF IsNaN(x) THEN NaN ELSE IF x < 0 THEN 0 - x ELSE x

\* Series.clip(lower=0)
ClipLower0(x) == IF IsNaN(x) THEN NaN ELSE IF x < 0 THEN 0 ELSE x

\* the second column alone, without the floor at the first
SecondColumn(x, y) == y

\* the first column alone, whatever the second
FirstColumn(x, y) == x

\* DataFrame.max(axis=1) of two columns, skipna
RowMax(x, y) ==
    IF IsNaN(x) THEN y ELSE IF IsNaN(y) THEN x ELSE IF x >= y THEN x ELSE y

\* Series.sum(), skipna
RECURSIVE Sum(_)
Sum(s) ==
    IF s = <<>> THEN 0
    ELSE (IF IsNaN(s[1]) THEN 0 ELSE s[1]) + Sum(Tail(s))

\* the columns written over the row's own amount
ModeledRowInPlace(r, rate) ==
    [local_government   |-> r.local_government,
     fy                 |-> r.fy,
     fy_total           |-> RowMax(r.fy_total, FScale(r.fy_total, rate, MapRate(r.fy))),
     tax                |-> r.tax,
     actual_rate        |-> MapRate(r.fy),
     modeled_collection |-> RowMax(r.fy_total, FScale(r.fy_total, rate, MapRate(r.fy))),
     forgone_revenue    |-> ClipLower0(FSub(FScale(r.fy_total, rate, MapRate(r.fy)), r.fy_total))]

(***************************************************************************)
(* COMPUTE MODELED COLUMNS, lines 80-84, on one row.                       *)
(***************************************************************************)
ModeledRow(r, rate) ==
    LET actual_rate         == MapRate(r.fy)
        modeled_collection0 == FScale(r.fy_total, rate, actual_rate)
        forgone_revenue0    == FSub(modeled_collection0, r.fy_total)
    IN  [local_government   |-> r.local_government,
         fy                 |-> r.fy,
         fy_total           |-> r.fy_total,
         tax                |-> r.tax,
         actual_rate        |-> actual_rate,
         modeled_collection |-> RowMax(r.fy_total, modeled_collection0),
         forgone_revenue    |-> ClipLower0(forgone_revenue0)]

ComputeModeledColumns(loaded, rate) ==
    [i \in DOMAIN loaded |-> ModeledRow(loaded[i], rate)]

(***************************************************************************)
(* Sorting on one column.  sort_values on a single column uses numpy's     *)
(* quicksort, which does not say where equal keys go.  A run of the script *)
(* therefore sorts in one of two ways: equal keys keep their order         *)
(* ("keep"), or equal keys come out in reverse order ("reverse").          *)
(***************************************************************************)
TieOrders == {"keep", "reverse"}

Reverse(s) == [i \in DOMAIN s |-> s[Len(s) + 1 - i]]

\* index x put into the order s (indices of keys, descending) behind every
\* index whose key is not smaller
InsertDesc(x, s, keys) ==
    LET after == {i \in DOMAIN s : keys[s[i]] >= keys[x]}
        k     == IF after = {} THEN 0 ELSE SetMax(after)
    IN  SubSeq(s, 1, k) \o <<x>> \o SubSeq(s, k + 1, Len(s))

\* the indices 1..n of keys in descending order of key, equal keys in index order
RECURSIVE StableDescOrder(_, _)
StableDescOrder(keys, n) ==
    IF n = 0 THEN <<>> ELSE InsertDesc(n, StableDescOrder(keys, n - 1), keys)

\* rows sorted descending on keys (keys[i] is the key of rows[i])
SortDesc(rows, keys, tie) ==
    LET r     == IF tie = "keep" THEN rows ELSE Reverse(rows)
        k     == IF tie = "keep" THEN keys ELSE Reverse(keys)
        order == StableDescOrder(k, Len(k))
    IN  [i \in DOMAIN r |-> r[order[i]]]

ColFy(rows) == [i \in DOMAIN rows |-> rows[i].fy]

ColFyTotal(rows) == [i \in DOMAIN rows |-> rows[i].fy_total]

ColModeledCollection(rows) == [i \in DOMAIN rows |-> rows[i].modeled_collection]

ColForgoneRevenue(rows) == [i \in DOMAIN rows |-> rows[i].forgone_revenue]

ColTotalActual(rows) == [i \in DOMAIN rows |-> rows[i].total_actual]

ColTotalModeled(rows) == [i \in DOMAIN rows |-> rows[i].total_modeled]

ColTotalForgone(rows) == [i \in DOMAIN rows |-> rows[i].total_forgone]

\* d.sort_values("fy", ascending=False)
SortByFyDesc(rows, tie) == SortDesc(rows, ColFy(rows), tie)

\* .sort_values("total_forgone", ascending=False)
\* the groups left in the order groupby gives them
LeftInGroupOrder(rows, tie) == rows

SortByForgoneDesc(rows, tie) == SortDesc(rows, ColTotalForgone(rows), tie)

\* the elements of a set of integers in ascending order
RECURSIVE Ascending(_)
Ascending(S) ==
    IF S = {} THEN <<>>
    ELSE LET m == SetMin(S) IN <<m>> \o Ascending(S \ {m})

\* x put into the ascending sequence s of strs
InsertStr(x, s) ==
    LET before == {i \in DOMAIN s : StrLess(s[i], x)}
        k      == IF before = {} THEN 0 ELSE SetMax(before)
    IN  SubSeq(s, 1, k) \o <<x>> \o SubSeq(s, k + 1, Len(s))

\* sorted() of a set of strs
RECURSIVE SortedStrs(_)
SortedStrs(S) ==
    IF S = {} THEN <<>>
    ELSE LET x == CHOOSE y \in S : TRUE IN InsertStr(x, SortedStrs(S \ {x}))

\* DataFrame.head(n)
HeadRows(rows, n) == SubSeq(rows, 1, Min(n, Len(rows)))

(***************************************************************************)
(* The widgets' options, lines 93-95.                                      *)
(***************************************************************************)
AllMunicipalities ==
    <<"A", "l", "l", " ", "M", "u", "n", "i", "c", "i", "p", "a", "l", "i", "t", "i", "e", "s">>

Municipalities(frame) ==
    <<AllMunicipalities>> \o SortedStrs({frame[i].local_government : i \in DOMAIN frame})

MinYear(frame) == SetMin({frame[i].fy : i \in DOMAIN frame})

MaxYear(frame) == SetMax({frame[i].fy : i \in DOMAIN frame})

\* the options of the "Show Top" selectbox; its default is the option at index 1
TopNOptions == <<10, 25, 50, 100, 250>>

TopNDefault == TopNOptions[2]

(***************************************************************************)
(* filter_data, lines 98-111.                                              *)
(***************************************************************************)
\* a range that leaves its last year out
BetweenExclusive(rows, year_range) ==
    SelectSeq(rows, LAMBDA r : year_range[1] <= r.fy /\ r.fy < year_range[2])

Between(rows, year_range) ==
    SelectSeq(rows, LAMBDA r : year_range[1] <= r.fy /\ r.fy <= year_range[2])

\* one group of filtered.groupby("fy").agg(sums), with the two added columns
YearRow(group, year) ==
    [fy                 |-> year,
     fy_total           |-> Sum(ColFyTotal(group)),
     modeled_collection |-> Sum(ColModeledCollection(group)),
     forgone_revenue    |-> Sum(ColForgoneRevenue(group)),
     actual_rate        |-> MapRate(year),
     local_government   |-> AllMunicipalities]

\* groupby sorts the group keys
AggregateByYear(filtered) ==
    LET years == Ascending({filtered[i].fy : i \in DOMAIN filtered})
    IN  [k \in DOMAIN years |->
            YearRow(SelectSeq(filtered, LAMBDA r : r.fy = years[k]), years[k])]

filter_data(dataframe, muni, year_range) ==
    LET filtered == Between(dataframe, year_range)
    IN  IF muni = AllMunicipalities
        THEN AggregateByYear(filtered)
        ELSE SelectSeq(filtered, LAMBDA r : r.local_government = muni)

(***************************************************************************)
(* The impact metrics of the bar chart tab (lines 183-198) and of the line *)
(* chart tab (lines 306-321): the same code on d2 and on d.                *)
(***************************************************************************)
ImpactMetrics(rows, tie) ==
    LET sorted  == SortByFyDesc(rows, tie)
        forgone == ColForgoneRevenue(sorted)
    IN  [latest |-> IF Len(sorted) > 0 THEN forgone[1] ELSE 0,
         three  |-> IF Len(sorted) >= 3 THEN Sum(HeadRows(forgone, 3)) ELSE Sum(forgone),
         five   |-> IF Len(sorted) >= 5 THEN Sum(HeadRows(forgone, 5)) ELSE Sum(forgone),
         total  |-> Sum(ColForgoneRevenue(rows))]

(***************************************************************************)
(* The top municipalities tab, lines 356-376 and 420-421.                  *)
(***************************************************************************)
\* one group of filtered_top.groupby("local_government").agg(sums)
MuniRow(group, muni) ==
    [local_government |-> muni,
     total_actual     |-> Sum(ColFyTotal(group)),
     total_modeled    |-> Sum(ColModeledCollection(group)),
     total_forgone    |-> Sum(ColForgoneRevenue(group))]

\* groupby sorts the group keys
AggregateByMuni(filtered) ==
    LET munis == SortedStrs({filtered[i].local_government : i \in DOMAIN filtered})
    IN  [k \in DOMAIN munis |->
            MuniRow(SelectSeq(filtered, LAMBDA r : r.local_government = munis[k]), munis[k])]

MuniTotals(frame, year_range, tie) ==
    SortByForgoneDesc(AggregateByMuni(Between(frame, year_range)), tie)

GrandTotals(totals) ==
    [grand_total   |-> Sum(ColTotalForgone(totals)),
     grand_actual  |-> Sum(ColTotalActual(totals)),
     grand_modeled |-> Sum(ColTotalModeled(totals))]

\* top_munis with the Rank column inserted
DisplayTop(totals, n) ==
    LET top_munis == HeadRows(totals, n)
    IN  [i \in DOMAIN top_munis |->
            [Rank             |-> i,
             local_government |-> top_munis[i].local_government,
             total_actual     |-> top_munis[i].total_actual,
             total_modeled    |-> top_munis[i].total_modeled,
             total_forgone    |-> top_munis[i].total_forgone]]

(***************************************************************************)
(* The state.                                                              *)
(***************************************************************************)
VARIABLES
    source,        \* the CSV file at DATA_PATH: [exists, columns, rows]
    tie_order,     \* how the installed numpy orders equal keys
    cache,         \* the st.cache_data memo of load_data: [hit, value]
    outcome,       \* how the last run of the script ended
    modeled_rate,  \* the modeled-rate slider
    df,            \* the frame with the modeled columns
    muni_bar,      \* bar chart tab: the municipality selectbox
    yr_bar,        \* bar chart tab: the year range slider
    d2,            \* bar chart tab: filter_data's result
    impact_bar,    \* bar chart tab: the four impact metrics
    muni_line,     \* line chart tab: the municipality selectbox
    yr_line,       \* line chart tab: the year range slider
    d,             \* line chart tab: filter_data's result
    impact_line,   \* line chart tab: the four impact metrics
    top_n,         \* top municipalities tab: the "Show Top" selectbox
    yr_top,        \* top municipalities tab: the year range slider
    muni_totals,   \* top municipalities tab: the sorted per-municipality sums
    grand,         \* top municipalities tab: the three grand totals
    display_top    \* top municipalities tab: the ranking table

vars == <<source, tie_order, cache, outcome, modeled_rate, df,
          muni_bar, yr_bar, d2, impact_bar,
          muni_line, yr_line, d, impact_line,
          top_n, yr_top, muni_totals, grand, display_top>>

\* a year range slider that was not drawn yet: its value will be its default
NotDrawn == <<0, 0>>

NoMetrics == [latest |-> 0, three |-> 0, five |-> 0, total |-> 0]

NoTotals == [grand_total |-> 0, grand_actual |-> 0, grand_modeled |-> 0]

\* the session before the first run of the script, on one of the given files,
\* with numpy ordering equal keys in one of the given ways
InitOn(files, ties) ==
    /\ source \in files
    /\ tie_order \in ties
    /\ cache = [hit |-> FALSE, value |-> <<>>]
    /\ outcome = "not run"
    /\ modeled_rate = SliderDefault
    /\ df = <<>>
    /\ muni_bar = AllMunicipalities /\ yr_bar = NotDrawn
    /\ d2 = <<>> /\ impact_bar = NoMetrics
    /\ muni_line = AllMunicipalities /\ yr_line = NotDrawn
    /\ d = <<>> /\ impact_line = NoMetrics
    /\ top_n = TopNDefault /\ yr_top = NotDrawn
    /\ muni_totals = <<>> /\ grand = NoTotals /\ display_top = <<>>

\* the value of a year range slider: (min_year, max_year) until it is moved
YearRange(value, frame) ==
    IF value = NotDrawn THEN <<MinYear(frame), MaxYear(frame)>> ELSE value

(***************************************************************************)
(* One run of the script with the widgets at the given values.             *)
(*   lines 36-38: no CSV file: st.error and st.stop.                        *)
(*   line 55: load_data through st.cache_data, which hands every run its   *)
(*            own copy of the memoized frame.                              *)
(*   lines 80-84: the modeled columns.                                     *)
(*   lines 94-95: int(df["fy"].min()) raises ValueError on an empty frame. *)
(*   then the three tabs.                                                  *)
(***************************************************************************)
Stopped(how) ==
    /\ outcome' = how
    /\ d2' = <<>> /\ impact_bar' = NoMetrics
    /\ d' = <<>> /\ impact_line' = NoMetrics
    /\ muni_totals' = <<>> /\ grand' = NoTotals /\ display_top' = <<>>
    /\ UNCHANGED <<muni_bar, yr_bar, muni_line, yr_line, top_n, yr_top>>

RunScript(rate, mb, yb, ml, yl, tn, yt) ==
    /\ UNCHANGED <<source, tie_order>>
    /\ modeled_rate' = rate
    /\ IF ~source.exists
       THEN /\ UNCHANGED <<cache, df>>
            /\ Stopped("DataUnavailable")
       ELSE /\ cache' = IF cache.hit THEN cache ELSE [hit |-> TRUE, value |-> load_data(source)]
            /\ df' = ComputeModeledColumns(cache'.value, rate)
            /\ IF df' = <<>>
               THEN Stopped("ValueError")
               ELSE /\ outcome' = "ok"
                    /\ muni_bar' = mb
                    /\ yr_bar' = YearRange(yb, df')
                    /\ d2' = filter_data(df', muni_bar', yr_bar')
                    /\ impact_bar' = ImpactMetrics(d2', tie_order)
                    /\ muni_line' = ml
                    /\ yr_line' = YearRange(yl, df')
                    /\ d' = filter_data(df', muni_line', yr_line')
                    /\ impact_line' = ImpactMetrics(d', tie_order)
                    /\ top_n' = tn
                    /\ yr_top' = YearRange(yt, df')
                    /\ muni_totals' = MuniTotals(df', yr_top', tie_order)
                    /\ grand' = GrandTotals(muni_totals')
                    /\ display_top' = DisplayTop(muni_totals', top_n')

(***************************************************************************)
(* The user's interactions.  Each re-runs the script.                      *)
(***************************************************************************)
\* the page is opened
FirstRun ==
    /\ outcome = "not run"
    /\ RunScript(modeled_rate, muni_bar, yr_bar, muni_line, yr_line, top_n, yr_top)

\* the modeled-rate slider is moved
SetModeledRate(rate) ==
    /\ outcome = "ok"
    /\ rate \in SliderValues \ {modeled_rate}
    /\ RunScript(rate, muni_bar, yr_bar, muni_line, yr_line, top_n, yr_top)

\* one handle of a year range slider is moved
MovedRange(value, frame) ==
    IF frame = <<>> \/ value = NotDrawn THEN {}
    ELSE {<<lo, value[2]>> : lo \in (MinYear(frame) .. value[2]) \ {value[1]}}
            \cup {<<value[1], hi>> : hi \in (value[1] .. MaxYear(frame)) \ {value[2]}}

SetMuniBar(muni) ==
    /\ outcome = "ok"
    /\ muni \in Range(Municipalities(df)) \ {muni_bar}
    /\ RunScript(modeled_rate, muni, yr_bar, muni_line, yr_line, top_n, yr_top)

SetYearRangeBar(year_range) ==
    /\ outcome = "ok"
    /\ year_range \in MovedRange(yr_bar, df)
    /\ RunScript(modeled_rate, muni_bar, year_range, muni_line, yr_line, top_n, yr_top)

SetMuniLine(muni) ==
    /\ outcome = "ok"
    /\ muni \in Range(Municipalities(df)) \ {muni_line}
    /\ RunScript(modeled_rate, muni_bar, yr_bar, muni, yr_line, top_n, yr_top)

SetYearRangeLine(year_range) ==
    /\ outcome = "ok"
    /\ year_range \in MovedRange(yr_line, df)
    /\ RunScript(modeled_rate, muni_bar, yr_bar, muni_line, year_range, top_n, yr_top)

SetTopN(n) ==
    /\ outcome = "ok"
    /\ n \in Range(TopNOptions) \ {top_n}
    /\ RunScript(modeled_rate, muni_bar, yr_bar, muni_line, yr_line, n, yr_top)

SetYearRangeTop(year_range) ==
    /\ outcome = "ok"
    /\ year_range \in MovedRange(yr_top, df)
    /\ RunScript(modeled_rate, muni_bar, yr_bar, muni_line, yr_line, top_n, year_range)

(***************************************************************************)
(* CSV files.                                                              *)
(***************************************************************************)
RECURSIVE Numeral(_)
Numeral(n) ==
    IF n < 10 THEN <<Digits[n + 1]>> ELSE Numeral(n \div 10) \o <<Digits[(n % 10) + 1]>>

\* a number of tenths, written with one decimal
TenthsCell(tenths) == Numeral(tenths \div 10) \o <<".">> \o Numeral(tenths % 10)

Header == <<local_government_name, tax_name, fy_name, fy_total_name>>

\* a well-formed INC row in the order of Header
CsvRow(muni, fy, tenths) == <<muni, INC, Numeral(fy), TenthsCell(tenths)>>

Csv(rows) == [exists |-> TRUE, columns |-> Header, rows |-> rows]

\* the municipality named by the i-th capital letter
Muni(i) == <<Uppers[i]>>

(***************************************************************************)
(* Small files: one well-formed row, or one row for each of two            *)
(* municipalities; three fiscal years with three different rates.          *)
(***************************************************************************)
SmallYears == {2015, 2016, 2018}

SmallFiles ==
    {Csv(<<CsvRow(Muni(1), y, t)>>) : y \in SmallYears, t \in {0, 7, MaxTotal}}
        \cup {Csv(<<CsvRow(Muni(2), y2, 7), CsvRow(Muni(1), y1, MaxTotal)>>) :
                y1 \in SmallYears, y2 \in SmallYears}

Init == InitOn(SmallFiles, TieOrders)

Next == FirstRun \/ \E rate \in SliderValues : SetModeledRate(rate)

Spec == Init /\ [][Next]_vars

\* the rate of the table for a fiscal year the table has
RateOf(fy) == ACTUAL_EFFECTIVE_RATES[fy]

\* fy_total * (modeled_rate / actual_rate), never below fy_total
ExpectedCollection(total, rate, actual) ==
    IF rate > actual THEN (total \div actual) * rate ELSE total

\* what the higher rate would have added, never below zero
ExpectedForgone(total, rate, actual) ==
    IF rate > actual THEN (total \div actual) * (rate - actual) ELSE 0

C3_Monotone ==
    [][(outcome = "ok" /\ outcome' = "ok" /\ modeled_rate <= modeled_rate') =>
          /\ Len(df') = Len(df)
          /\ \A i \in DOMAIN df :
                /\ df'[i].modeled_collection >= df[i].modeled_collection
                /\ df'[i].forgone_revenue >= df[i].forgone_revenue]_vars

\* the slider was moved to a rate strictly between the rates of two years
\* that both have money: one record is above its floor, the other is on it
C3_Witness ==
    /\ outcome = "ok"
    /\ modeled_rate # SliderDefault
    /\ \E i, j \in DOMAIN df :
          /\ RateOf(df[i].fy) < modeled_rate /\ modeled_rate < RateOf(df[j].fy)
          /\ df[i].forgone_revenue > 0
          /\ df[j].fy_total > 0 /\ df[j].forgone_revenue = 0

(***************************************************************************)
(* C9.  Whatever rates were chosen before, the frame holds the loaded      *)
(* records with their actual fields as loaded, and modeled_collection and  *)
(* forgone_revenue are those of one computation at the current rate; the   *)
(* loaded records themselves never change.                                 *)
(***************************************************************************)
C9_FreshFromLoaded ==
    /\ [](outcome = "ok" =>
            /\ Len(df) = Len(cache.value)
            /\ \A i \in DOMAIN df :
                  /\ df[i].local_government = cache.value[i].local_government
                  /\ df[i].fy = cache.value[i].fy
                  /\ df[i].fy_total = cache.value[i].fy_total
                  /\ df[i].tax = cache.value[i].tax
                  /\ df[i].modeled_collection
                        = ExpectedCollection(cache.value[i].fy_total, modeled_rate,
                                             RateOf(cache.value[i].fy))
                  /\ df[i].forgone_revenue
                        = ExpectedForgone(cache.value[i].fy_total, modeled_rate,
                                          RateOf(cache.value[i].fy)))
    /\ [][cache.hit => cache' = cache]_vars

\* the slider is at its highest rate, away from its default, and every
\* record with money in it is above its floor
C9_Witness ==
    /\ outcome = "ok"
    /\ modeled_rate = SliderMax
    /\ Len(df) = 2
    /\ \A i \in DOMAIN df : df[i].forgone_revenue > 0

(***************************************************************************)
(* Files as they come: a header in any case, padding and order, and rows   *)
(* whose cells may be padded, lower case, not numeric, or empty.  Each     *)
(* table gives the cells the model writes and what each one means.         *)
(***************************************************************************)
HeaderTable ==
    {[columns |-> Header, local_government |-> 1, tax |-> 2, fy |-> 3, fy_total |-> 4],
     [columns |-> <<<<" ", "F", "Y", " ">>,
                    <<"T", "a", "x">>,
                    <<"F", "Y", "_", "T", "o", "t", "a", "l", " ">>,
                    <<"L", "o", "c", "a", "l", "_", "G", "o", "v", "e", "r", "n", "m", "e", "n", "t">>>>,
      local_government |-> 4, tax |-> 2, fy |-> 1, fy_total |-> 3]}

LocalGovernmentTable ==
    {[cell |-> <<"B">>, name |-> <<"B">>, rank |-> 2],
     [cell |-> <<" ", "A", " ">>, name |-> <<"A">>, rank |-> 1]}

FyTable ==
    {[cell |-> <<"2", "0", "1", "6">>, numeric |-> TRUE, year |-> 2016],
     [cell |-> <<"2", "0", "1", "5", ".", "9">>, numeric |-> TRUE, year |-> 2015],
     [cell |-> <<"x">>, numeric |-> FALSE, year |-> 0]}

FyTotalTable ==
    {[cell |-> <<"1", ".", "5">>, numeric |-> TRUE, tenths |-> 15],
     [cell |-> <<"3">>, numeric |-> TRUE, tenths |-> 30],
     [cell |-> <<>>, numeric |-> FALSE, tenths |-> 0]}

TaxTable ==
    {[cell |-> <<" ", "i", "n", "c">>, inc |-> TRUE],
     [cell |-> <<"U", "S", "E">>, inc |-> FALSE]}

Cells(table) == {e.cell : e \in table}

Meaning(table, cell) == CHOOSE e \in table : e.cell = cell

\* the cells of a row, in the order of the header
RawRow(h, lg, fy, total, tax) ==
    [j \in 1 .. 4 |->
        IF j = h.local_government THEN lg
        ELSE IF j = h.fy THEN fy
        ELSE IF j = h.fy_total THEN total
        ELSE tax]

\* every row that is kept, and one row for each reason to drop a row
RawRows(h) ==
    {RawRow(h, lg, fy.cell, total.cell, tax.cell) :
        lg \in Cells(LocalGovernmentTable),
        fy \in {e \in FyTable : e.numeric},
        total \in {e \in FyTotalTable : e.numeric},
        tax \in {e \in TaxTable : e.inc}}
      \cup {RawRow(h, <<"B">>, fy.cell, <<"3">>, <<" ", "i", "n", "c">>) :
                fy \in {e \in FyTable : ~e.numeric}}
      \cup {RawRow(h, <<" ", "A", " ">>, <<"2", "0", "1", "6">>, total.cell,
                   <<" ", "i", "n", "c">>) :
                total \in {e \in FyTotalTable : ~e.numeric}}
      \cup {RawRow(h, <<"B">>, <<"2", "0", "1", "5", ".", "9">>, <<"1", ".", "5">>, tax.cell) :
                tax \in {e \in TaxTable : ~e.inc}}

RawFiles ==
    UNION {{[exists |-> TRUE, columns |-> h.columns, rows |-> rows] :
                rows \in UNION {[1 .. n -> RawRows(h)] : n \in 0 .. MaxRows}} :
           h \in HeaderTable}

InitLoad == InitOn(RawFiles, {"keep"})

NextLoad == FirstRun

SpecLoad == InitLoad /\ [][NextLoad]_vars

\* what the file's row i means, read off the tables
RowMeaning(i) ==
    LET h   == CHOOSE e \in HeaderTable : e.columns = source.columns
        row == source.rows[i]
    IN  [local_government |-> Meaning(LocalGovernmentTable, row[h.local_government]),
         fy               |-> Meaning(FyTable, row[h.fy]),
         fy_total         |-> Meaning(FyTotalTable, row[h.fy_total]),
         tax              |-> Meaning(TaxTable, row[h.tax])]

RowIsKept(i) ==
    RowMeaning(i).fy.numeric /\ RowMeaning(i).fy_total.numeric /\ RowMeaning(i).tax.inc

\* the record that a kept row of the file stands for
RowRecord(i) ==
    [local_government |-> RowMeaning(i).local_government.name,
     fy               |-> RowMeaning(i).fy.year,
     fy_total         |-> (RowMeaning(i).fy_total.tenths * FloatDen) \div 10,
     tax              |-> INC]

Occurrences(rows, x) == Cardinality({i \in DOMAIN rows : rows[i] = x})

NameRank(name) == (CHOOSE e \in LocalGovernmentTable : e.name = name).rank

(***************************************************************************)
(* C8.  load_data returns exactly the rows of the file whose fy and        *)
(* fy_total are numbers and whose tax is INC after trimming and            *)
(* upper-casing, each as many times as the file has it, with fy truncated  *)
(* to an integer and local_government trimmed; and they are sorted         *)
(* ascending by (local_government, fy).  The loaded frame is a function of *)
(* the file alone.                                                         *)
(***************************************************************************)
C8_LoadData ==
    cache.hit =>
        /\ Len(cache.value) = Cardinality({i \in DOMAIN source.rows : RowIsKept(i)})
        /\ \A i \in DOMAIN source.rows :
              RowIsKept(i) =>
                  Occurrences(cache.value, RowRecord(i))
                      = Cardinality({j \in DOMAIN source.rows :
                                        RowIsKept(j) /\ RowRecord(j) = RowRecord(i)})
        /\ \A i, j \in DOMAIN cache.value :
              i < j =>
                  \/ NameRank(cache.value[i].local_government)
                        < NameRank(cache.value[j].local_government)
                  \/ /\ cache.value[i].local_government = cache.value[j].local_government
                     /\ cache.value[i].fy <= cache.value[j].fy

\* a file of two kept rows, B before a padded A with a fractional fy, was
\* loaded: the rows come out in the other order, fy truncated, name trimmed
C8_Witness ==
    /\ cache.hit
    /\ Len(source.rows) >= 2
    /\ RowIsKept(1) /\ RowIsKept(2)
    /\ RowMeaning(1).local_government.name = <<"B">>
    /\ RowMeaning(2).local_government.cell = <<" ", "A", " ">>
    /\ RowMeaning(2).fy.cell = <<"2", "0", "1", "5", ".", "9">>
    /\ cache.value = <<RowRecord(2), RowRecord(1)>>

(***************************************************************************)
(* Two municipalities over three fiscal years, one of them with a gap; and *)
(* a file in which a municipality has two rows for one fiscal year.        *)
(***************************************************************************)
GapFile ==
    Csv(<<CsvRow(Muni(2), 2016, 4), CsvRow(Muni(2), 2018, 12),
          CsvRow(Muni(1), 2016, 10), CsvRow(Muni(1), 2017, 0),
          CsvRow(Muni(1), 2018, MaxTotal)>>)

DuplicateFile ==
    Csv(<<CsvRow(Muni(1), 2016, 10), CsvRow(Muni(1), 2017, 6),
          CsvRow(Muni(1), 2018, 7), CsvRow(Muni(1), 2018, 3),
          CsvRow(Muni(2), 2017, 12)>>)

InitBar == InitOn({GapFile}, TieOrders)

NextBar ==
    \/ FirstRun
    \/ \E rate \in SliderValues : SetModeledRate(rate)
    \/ \E muni \in Range(Municipalities(df)) : SetMuniBar(muni)
    \/ \E year_range \in MovedRange(yr_bar, df) : SetYearRangeBar(year_range)

SpecBar == InitBar /\ [][NextBar]_vars

\* the sum of a column over the rows at the given indices
RECURSIVE SumAt(_, _)
SumAt(column, indices) ==
    IF indices = {} THEN 0
    ELSE LET i == CHOOSE j \in indices : TRUE
         IN  column[i] + SumAt(column, indices \ {i})

\* the records of the frame inside an inclusive year range
InRange(year_range) ==
    {i \in DOMAIN df : year_range[1] <= df[i].fy /\ df[i].fy <= year_range[2]}

\* rows are the All Municipalities rows of the frame for the year range
IsAllMunicipalitiesResult(rows, year_range) ==
    LET years == {df[i].fy : i \in InRange(year_range)}
    IN  /\ Len(rows) = Cardinality(years)
        /\ {rows[k].fy : k \in DOMAIN rows} = years
        /\ \A k \in DOMAIN rows : k > 1 => rows[k - 1].fy < rows[k].fy
        /\ \A k \in DOMAIN rows :
              LET of_year == {i \in InRange(year_range) : df[i].fy = rows[k].fy}
              IN  /\ rows[k].fy_total = SumAt([i \in DOMAIN df |-> df[i].fy_total], of_year)
                  /\ rows[k].modeled_collection
                        = SumAt([i \in DOMAIN df |-> df[i].modeled_collection], of_year)
                  /\ rows[k].forgone_revenue
                        = SumAt([i \in DOMAIN df |-> df[i].forgone_revenue], of_year)
                  /\ rows[k].actual_rate = RateOf(rows[k].fy)

(***************************************************************************)
(* C6.  With "All Municipalities" selected, filter_data returns exactly    *)
(* one row per fiscal year that has a record inside the inclusive year     *)
(* range, in ascending order of fiscal year; each row's fy_total,          *)
(* modeled_collection and forgone_revenue are the sums over all the        *)
(* records of that year, and its actual_rate is the rate table's entry.    *)
(***************************************************************************)
C6_AllMunicipalities ==
    outcome = "ok" =>
        /\ muni_bar = AllMunicipalities => IsAllMunicipalitiesResult(d2, yr_bar)
        /\ muni_line = AllMunicipalities => IsAllMunicipalitiesResult(d, yr_line)

\* All Municipalities over 2016-2017 of a frame that goes on to 2018: two
\* rows, the first the sum of two municipalities' records of 2016
C6_Witness ==
    /\ outcome = "ok"
    /\ muni_bar = AllMunicipalities
    /\ yr_bar = <<2016, 2017>>
    /\ MaxYear(df) = 2018
    /\ Len(d2) = 2
    /\ Cardinality({i \in DOMAIN df : df[i].fy = 2016}) = 2
    /\ d2[1].forgone_revenue > 0
    /\ \A i \in DOMAIN df : d2[1].fy_total > df[i].fy_total \/ df[i].fy # 2016

InitLine == InitOn({DuplicateFile}, TieOrders)

NextLine ==
    \/ FirstRun
    \/ \E rate \in SliderValues : SetModeledRate(rate)
    \/ \E muni \in Range(Municipalities(df)) : SetMuniLine(muni)
    \/ \E year_range \in MovedRange(yr_line, df) : SetYearRangeLine(year_range)

SpecLine == InitLine /\ [][NextLine]_vars

\* the k most recent fiscal years among the given ones, or all if fewer
RECURSIVE MostRecent(_, _)
MostRecent(years, k) ==
    IF k = 0 \/ years = {} THEN {}
    ELSE {SetMax(years)} \cup MostRecent(years \ {SetMax(years)}, k - 1)

\* the forgone revenue of the rows whose fiscal year is one of the k most recent
ForgoneOfMostRecent(rows, k) ==
    LET recent == MostRecent({rows[i].fy : i \in DOMAIN rows}, k)
    IN  SumAt([i \in DOMAIN rows |-> rows[i].forgone_revenue],
              {i \in DOMAIN rows : rows[i].fy \in recent})

ImpactByFiscalYear(rows) ==
    [latest |-> ForgoneOfMostRecent(rows, 1),
     three  |-> ForgoneOfMostRecent(rows, 3),
     five   |-> ForgoneOfMostRecent(rows, 5),
     total  |-> SumAt([i \in DOMAIN rows |-> rows[i].forgone_revenue], DOMAIN rows)]

(***************************************************************************)
(* C7.  The impact summary of a selected record set: the 1-year impact is  *)
(* the forgone revenue of the most recent fiscal year of the set (0 for an *)
(* empty set), the 3-year and 5-year impacts are the forgone revenue of    *)
(* the 3 and 5 most recent fiscal years (of all years if fewer), and the   *)
(* total impact is the forgone revenue of the whole set.                   *)
(***************************************************************************)
C7_ImpactByFiscalYear ==
    outcome = "ok" =>
        /\ impact_bar = ImpactByFiscalYear(d2)
        /\ impact_line = ImpactByFiscalYear(d)

(***************************************************************************)
(* One municipality more than the smallest "Show Top" option, each with a  *)
(* row for 2017, with equal and with different amounts; the first three    *)
(* also with a row for 2018.                                               *)
(***************************************************************************)
TopMunis == TopNOptions[1] + 1

TopFile ==
    Csv([i \in 1 .. TopMunis + 3 |->
            IF i <= TopMunis
            THEN CsvRow(Muni(i), 2017, 1 + ((i * 3) % 7))
            ELSE CsvRow(Muni(i - TopMunis), 2018, 5 * (i - TopMunis))])

InitTop == InitOn({TopFile}, {"keep"})

NextTop ==
    \/ FirstRun
    \/ \E rate \in SliderValues : SetModeledRate(rate)
    \/ \E n \in Range(TopNOptions) : SetTopN(n)
    \/ \E year_range \in MovedRange(yr_top, df) : SetYearRangeTop(year_range)

SpecTop == InitTop /\ [][NextTop]_vars

\* the municipalities with a record inside the year range of the tab
Pool == {df[i].local_government : i \in InRange(yr_top)}

\* a municipality's forgone revenue summed over the year range of the tab
PoolForgone(m) ==
    SumAt([i \in DOMAIN df |-> df[i].forgone_revenue],
          {i \in InRange(yr_top) : df[i].local_government = m})

\* the elements of a set, one after the other
RECURSIVE SeqOfSet(_)
SeqOfSet(S) ==
    IF S = {} THEN <<>>
    ELSE LET x == CHOOSE y \in S : TRUE IN <<x>> \o SeqOfSet(S \ {x})

\* the sums of the municipalities of a sequence, in its order
RECURSIVE PoolForgoneEach(_)
PoolForgoneEach(munis) ==
    IF munis = <<>> THEN <<>>
    ELSE <<PoolForgone(Head(munis))>> \o PoolForgoneEach(Tail(munis))

\* at k, the forgone revenue of the first k rows of the ranking together
RECURSIVE RunningForgone(_)
RunningForgone(rows) ==
    IF rows = <<>> THEN <<>>
    ELSE LET before == RunningForgone(SubSeq(rows, 1, Len(rows) - 1))
         IN  Append(before,
                    (IF before = <<>> THEN 0 ELSE before[Len(before)])
                        + rows[Len(rows)].total_forgone)

(***************************************************************************)
(* C5.  The ranking table has min(N, number of municipalities with a       *)
(* record in the inclusive year range) rows, one per municipality, ranked  *)
(* 1, 2, ... in row order; each row carries its municipality's forgone     *)
(* revenue summed over the range; no row has a smaller sum than a row      *)
(* after it; and the first k rows together have at least the forgone       *)
(* revenue of any k municipalities of the pool.                            *)
(***************************************************************************)
C5_TopN ==
    outcome = "ok" =>
        LET totals  == PoolForgoneEach(SeqOfSet(Pool))
            running == RunningForgone(display_top)
        IN  /\ Len(display_top) = Min(top_n, Cardinality(Pool))
            /\ \A k \in DOMAIN display_top :
                  /\ display_top[k].Rank = k
                  /\ display_top[k].local_government \in Pool
                  /\ display_top[k].total_forgone
                        = PoolForgone(display_top[k].local_government)
            /\ \A j, k \in DOMAIN display_top :
                  j < k =>
                      /\ display_top[j].local_government # display_top[k].local_government
                      /\ display_top[j].total_forgone >= display_top[k].total_forgone
            /\ \A munis \in SUBSET DOMAIN totals :
                  Cardinality(munis) \in DOMAIN running =>
                      running[Cardinality(munis)] >= SumAt(totals, munis)

\* the top 10 of eleven municipalities, whose sums are not all equal, with
\* the municipality left out having less than the tenth
C5_Witness ==
    /\ outcome = "ok"
    /\ top_n = TopNOptions[1]
    /\ Cardinality(Pool) = TopNOptions[1] + 1
    /\ Len(display_top) = TopNOptions[1]
    /\ display_top[1].total_forgone > display_top[TopNOptions[1]].total_forgone
    /\ \E m \in Pool :
          /\ \A k \in DOMAIN display_top : display_top[k].local_government # m
          /\ PoolForgone(m) < display_top[TopNOptions[1]].total_forgone

(***************************************************************************)
(* C10.  forgone_revenue = modeled_collection - fy_total on every modeled  *)
(* record, and so on every All Municipalities row of filter_data, on every *)
(* per-municipality row of the top tab, and on the grand totals.           *)
(***************************************************************************)
C10_AccountingIdentity ==
    outcome = "ok" =>
        /\ \A i \in DOMAIN df :
              df[i].forgone_revenue = df[i].modeled_collection - df[i].fy_total
        /\ \A k \in DOMAIN d2 :
              d2[k].forgone_revenue = d2[k].modeled_collection - d2[k].fy_total
        /\ \A k \in DOMAIN d :
              d[k].forgone_revenue = d[k].modeled_collection - d[k].fy_total
        /\ \A k \in DOMAIN muni_totals :
              muni_totals[k].total_forgone
                  = muni_totals[k].total_modeled - muni_totals[k].total_actual
        /\ \A k \in DOMAIN display_top :
              display_top[k].total_forgone
                  = display_top[k].total_modeled - display_top[k].total_actual
        /\ grand.grand_total = grand.grand_modeled - grand.grand_actual

\* a rate between the rates of 2017 and 2018: the All Municipalities rows
\* and a municipality's sum mix a year on its floor with a year above it
C10_Witness ==
    /\ outcome = "ok"
    /\ RateOf(2018) < modeled_rate /\ modeled_rate < RateOf(2017)
    /\ muni_bar = AllMunicipalities
    /\ Len(d2) = 2
    /\ d2[1].forgone_revenue = 0 /\ d2[1].fy_total > 0
    /\ d2[2].forgone_revenue > 0
    /\ \E k \in DOMAIN muni_totals :
          /\ muni_totals[k].total_forgone > 0
          /\ muni_totals[k].total_modeled > muni_totals[k].total_forgone
    /\ grand.grand_total > 0

(***************************************************************************)
(* Files with a fiscal year the rate table has no entry for, and the       *)
(* missing file.                                                           *)
(***************************************************************************)
MissingFile == [exists |-> FALSE, columns |-> <<>>, rows |-> <<>>]

UnknownYearFiles ==
    {Csv(<<CsvRow(Muni(1), 2018, 10), CsvRow(Muni(1), 2026, MaxTotal)>>),
     Csv(<<CsvRow(Muni(1), 2026, 10)>>),
     Csv(<<CsvRow(Muni(1), 2011, 7), CsvRow(Muni(2), 2011, 5), CsvRow(Muni(2), 2012, 5)>>)}

InitUnknownRate == InitOn(UnknownYearFiles \cup {MissingFile}, TieOrders)

SpecUnknownRate == InitUnknownRate /\ [][Next]_vars

(***************************************************************************)
(* C4.  When a loaded record's fiscal year has no entry in the rate table, *)
(* the run fails with UnknownRate: it does not end well with the record    *)
(* skipped, defaulted or summed into the aggregates.                       *)
(***************************************************************************)
C4_UnknownRate ==
    (cache.hit /\ \E i \in DOMAIN cache.value :
                      cache.value[i].fy \notin DOMAIN ACTUAL_EFFECTIVE_RATES)
        => outcome = "UnknownRate"

=============================================================================
